---- MODULE Spec2Model ----
(***************************************************************************)
(* A model of the ndseq real-time core: the JACK process callback          *)
(* (Process -> processMidi -> cc / note, then tick -> advanceStepLight /   *)
(* trigger) and the sample-rate callback (setSamplesPerBeat).              *)
(*                                                                         *)
(* The JACK ports are taken as registered and bound.  A port's             *)
(* MidiEventWrite either appends the message to the cycle's buffer and     *)
(* returns 0, or appends nothing and returns a non-zero code chosen by the *)
(* host.  Go's uint32 arithmetic is kept modulo 2^32.                      *)
(***************************************************************************)
EXTENDS Integers, Sequences, FiniteSets, TLC

----------------------------------------------------------------------------
(* Bounds of the model. *)

\* tick sizes 0..MaxFrames (and the largest uint32) are offered to Process
MaxFrames == 3
\* sample rates 0..MaxRate are offered to the sample-rate callback
MaxRate == 3
\* inbound MIDI events per callback in the MIDI specification
MaxEvents == 2
\* the frame total of the measuring window is exact up to MaxTotal
MaxTotal == 6
\* Process is offered while fewer than MaxCount crossings were counted
MaxCount == 4
\* the same in the specification of the cursor's wrap, which needs 65 of them
MaxCrossings == 66

----------------------------------------------------------------------------
(* Program constants. *)

\* Error codes: DivideByZero = 50
DivideByZero == 50
\* beat int // 64 steps
Steps == 64

----------------------------------------------------------------------------
(* uint32.  A value is the pair <<hi, lo>> of its 16-bit halves (2^32 is   *)
(* beyond the model checker's integers); a product or sum before it is cut *)
(* to 32 bits is the triple <<carry, hi, lo>>.                             *)

Half == 65536

\* the uint32 of a natural below 2^31
U(n) == <<n \div Half, n % Half>>

\* the natural of a uint32 below 2^31
Val(x) == x[1] * Half + x[2]

MaxU32 == <<Half - 1, Half - 1>>

\* the uncut values
Wide(x) == <<0, x[1], x[2]>>

AddWide(a, b) ==
    LET lo == a[2] + b[2]
        hi == a[1] + b[1] + (lo \div Half)
    IN  <<hi \div Half, hi % Half, lo % Half>>

\* k * a, for 0 <= k < 2^15
MulWide(k, a) ==
    LET lo == k * a[2]
        hi == k * a[1] + (lo \div Half)
    IN  <<hi \div Half, hi % Half, lo % Half>>

\* floor(w / t), for 0 < t < 2^15
DivWide(w, t) ==
    LET x1 == (w[1] % t) * Half + w[2]
        x0 == (x1 % t) * Half + w[3]
    IN  <<w[1] \div t, x1 \div t, x0 \div t>>

\* the low 32 bits
Cut(w) == <<w[2], w[3]>>

\* Go's a + b, k * a, a / t and a < b on uint32
Add32(a, b) == Cut(AddWide(a, b))

Mul32(k, a) == Cut(MulWide(k, a))

Div32(a, t) == Cut(DivWide(Wide(a), t))

Less32(a, b) == a[1] < b[1] \/ (a[1] = b[1] /\ a[2] < b[2])

\* the JACK status bits isFailure tests for: Failure, InvalidOption,
\* NameNotUnique, ServerError, NoSuchClient, LoadFailure, InitFailure,
\* ShmFailure, VersionError, BackendError, ClientZombie
JackFailureCodes == {1, 2, 4, 32, 64, 128, 256, 512, 1024, 2048, 4096}

\* what MidiEventWrite can return: 0, jack.Failure, and ENOBUFS (the buffer
\* is full), a non-zero code that is no JACK status
WriteCodes == {0, 1, 105}

----------------------------------------------------------------------------
(* Bytes. *)

RECURSIVE BitOr(_, _)
\* a | b on naturals
BitOr(a, b) ==
    IF a = 0 THEN b
    ELSE IF b = 0 THEN a
    ELSE (IF (a % 2 = 1) \/ (b % 2 = 1) THEN 1 ELSE 0) + 2 * BitOr(a \div 2, b \div 2)

\* byte(x): conversion to uint8
Byte(x) == x % 256

----------------------------------------------------------------------------
VARIABLES
    beat,             \* step cursor
    firstNotePlayed,  \* whether a note was ever played
    sampleCount,      \* uint32 sample carry
    samplesPerBeat,   \* uint32 beat period
    tempo,            \* tempo in BPM, from the command line (below 2^15 here)
    trigs,            \* [8][64]uint8 grid data: the non-zero cells, by <<track, step>>
    outBuffer,        \* the messages written to the cycle's MIDI buffer
    panicked,         \* a run-time panic ended the process
    op,               \* the callback that ran last
    arg,              \* its argument (nframes or sr)
    ret,              \* its return code
    launchpadEvents,  \* the inbound events of the last Process
    wres,             \* the codes MidiEventWrite returned in the last Process
    path,             \* the branch tick took in the last Process
    frames,           \* frames ticked since the first note (exact up to MaxTotal)
    crossings,        \* calls of trigger by ticks after the first note
    stable,           \* samplesPerBeat has not changed since the first note
    beat0,            \* the cursor when the first note was played
    lights            \* the last two calls of stepLightMidiData, latest first

vars == <<beat, firstNotePlayed, sampleCount, samplesPerBeat, tempo, trigs,
          outBuffer, panicked, op, arg, ret, launchpadEvents, wres, path,
          frames, crossings, stable, beat0, lights>>

----------------------------------------------------------------------------
(* The functions of the program, over a record of the globals they touch: *)
(* m.code is the value returned, m.out the cycle's buffer, m.wres the     *)
(* codes the writes returned so far, m.path the branch tick took.         *)

\* isFailure without the program's own error code
isFailureNoDiv(code) == code \in JackFailureCodes

isFailure(code) == code \in JackFailureCodes \/ code = DivideByZero

\* port.MidiEventWrite(&jack.MidiData{Buffer: data}, outBuffer); ws[i] is
\* the code the host returns for the i-th write of the cycle
MidiEventWrite(m, port, data, ws) ==
    LET code == ws[Len(m.wres) + 1] IN
    [m EXCEPT !.wres = Append(@, code),
              !.out = IF code = 0 THEN Append(@, [port |-> port, data |-> data]) ELSE @,
              !.code = code]

advanceStepLight(m, ws) ==
    IF m.beat = 0 /\ ~m.firstNotePlayed
    THEN MidiEventWrite([m EXCEPT !.beat = @ + 1], "launchpadOutput", <<144, 16, 63>>, ws)
    ELSE [m EXCEPT !.beat = @ + 1, !.code = 0]

\* stepLightMidiData with the row taken from beat / 16
stepLightMidiDataRow16(b) == <<144, Byte((b \div 16) + (16 * (b % 8))), 63>>

\* the Buffer of the MidiData returned
stepLightMidiData(b) == <<144, Byte((b \div 8) + (16 * (b % 8))), 63>>

\* the switch of cc with Button 4 given Button 3's channel
ccStatusSlip(in1) ==
    CASE in1 = 104 -> 144
      [] in1 = 105 -> BitOr(144, 1)
      [] in1 = 106 -> BitOr(144, 2)
      [] in1 = 107 -> BitOr(144, 2)
      [] in1 = 108 -> BitOr(144, 4)
      [] in1 = 109 -> BitOr(144, 5)
      [] OTHER -> 144

\* the switch of cc: the output status byte for controller button in1
ccStatus(in1) ==
    CASE in1 = 104 -> 144
      [] in1 = 105 -> BitOr(144, 1)
      [] in1 = 106 -> BitOr(144, 2)
      [] in1 = 107 -> BitOr(144, 3)
      [] in1 = 108 -> BitOr(144, 4)
      [] in1 = 109 -> BitOr(144, 5)
      [] OTHER -> 144

\* in[2] (and then in[1]) of a shorter buffer is an index out of range
cc(m, nframes, in, ws) ==
    IF Len(in) < 3 THEN [m EXCEPT !.panicked = TRUE]
    ELSE MidiEventWrite(m, "ndOutput", <<ccStatus(in[2]), 54, in[3]>>, ws)

note(m, nframes, in) == [m EXCEPT !.code = 0]

\* processMidi with every status byte but the note ones taken as a controller
processMidiAllCC(m, nframes, event, ws) ==
    IF Len(event) < 1 THEN [m EXCEPT !.panicked = TRUE]
    ELSE IF event[1] \in {128, 144} THEN note(m, nframes, event)
    ELSE cc(m, nframes, event, ws)

processMidi(m, nframes, event, ws) ==
    IF Len(event) < 1 THEN [m EXCEPT !.panicked = TRUE]
    ELSE IF event[1] = 176 THEN cc(m, nframes, event, ws)
    ELSE IF event[1] \in {128, 144} THEN note(m, nframes, event)
    ELSE [m EXCEPT !.code = 0]

\* trigs[track][step]
Cell(g, c) == IF c \in DOMAIN g THEN g[c] ELSE 0

\* the values in one row of the grid
RowValues(g, track) ==
    LET set == {c \in DOMAIN g : c[1] = track} IN
    {g[c] : c \in set} \cup (IF Cardinality(set) < 64 THEN {0} ELSE {})

triggerTrack(track, trig) == 0

\* the code of the first failing triggerTrack of the loop over trigs, or 0
trigger(m, nframes) ==
    IF \A track \in 0..7 : \A trig \in RowValues(m.trigs, track) :
           ~isFailure(triggerTrack(track, trig))
    THEN [m EXCEPT !.code = 0]
    ELSE LET failing == {c \in (0..7) \X (0..63) :
                            isFailure(triggerTrack(c[1], Cell(m.trigs, c)))}
             first == CHOOSE c \in failing :
                         \A d \in failing : 64 * c[1] + c[2] <= 64 * d[1] + d[2]
         IN  [m EXCEPT !.code = triggerTrack(first[1], Cell(m.trigs, first))]

\* tick with the first call put through the beat test like every other
tickGated(m, nframes, ws) ==
    IF ~m.firstNotePlayed
    THEN LET a == advanceStepLight(m, ws) IN
         IF isFailure(a.code) THEN [a EXCEPT !.path = "firstFailed"]
         ELSE IF Less32(Add32(a.sampleCount, nframes), a.samplesPerBeat)
         THEN [a EXCEPT !.firstNotePlayed = TRUE, !.sampleCount = Add32(@, nframes),
                        !.code = 0, !.path = "accumulate"]
         ELSE trigger([a EXCEPT !.firstNotePlayed = TRUE, !.path = "first"], nframes)
    ELSE IF Less32(Add32(m.sampleCount, nframes), m.samplesPerBeat)
    THEN [m EXCEPT !.sampleCount = Add32(@, nframes), !.code = 0, !.path = "accumulate"]
    ELSE trigger([m EXCEPT !.path = "cross"], nframes)

\* tick with the cursor stepped at every crossing, and never wrapped
tickAdvance(m, nframes, ws) ==
    IF ~m.firstNotePlayed
    THEN LET a == advanceStepLight(m, ws) IN
         IF isFailure(a.code) THEN [a EXCEPT !.path = "firstFailed"]
         ELSE trigger([a EXCEPT !.firstNotePlayed = TRUE, !.path = "first"], nframes)
    ELSE IF Less32(Add32(m.sampleCount, nframes), m.samplesPerBeat)
    THEN [m EXCEPT !.sampleCount = Add32(@, nframes), !.code = 0, !.path = "accumulate"]
    ELSE trigger([advanceStepLight(m, ws) EXCEPT !.path = "cross"], nframes)

tick(m, nframes, ws) ==
    IF ~m.firstNotePlayed
    THEN LET a == advanceStepLight(m, ws) IN
         IF isFailure(a.code) THEN [a EXCEPT !.path = "firstFailed"]
         ELSE trigger([a EXCEPT !.firstNotePlayed = TRUE, !.path = "first"], nframes)
    ELSE IF Less32(Add32(m.sampleCount, nframes), m.samplesPerBeat)
    THEN [m EXCEPT !.sampleCount = Add32(@, nframes), !.code = 0, !.path = "accumulate"]
    ELSE trigger([m EXCEPT !.path = "cross"], nframes)

RECURSIVE processEvents(_, _, _, _, _)
\* the loop of Process over launchpadEvents, from the i-th event on
processEvents(m, nframes, events, ws, i) ==
    IF i > Len(events) THEN m
    ELSE LET r == processMidi(m, nframes, events[i], ws) IN
         IF r.panicked \/ r.code # 0 THEN r
         ELSE processEvents(r, nframes, events, ws, i + 1)

Process(m, nframes, events, ws) ==
    LET cleared == [m EXCEPT !.out = <<>>, !.code = 0]
        r == processEvents(cleared, nframes, events, ws, 1)
    IN  IF r.panicked \/ r.code # 0 THEN r ELSE tick(r, nframes, ws)

setSamplesPerBeat(m, sr) ==
    IF m.tempo = 0 THEN [m EXCEPT !.code = DivideByZero]
    ELSE [m EXCEPT !.samplesPerBeat = Div32(Mul32(60, sr), m.tempo), !.code = 0]

----------------------------------------------------------------------------
(* The state machine. *)

\* the globals as the callbacks find them
Globals ==
    [beat |-> beat, firstNotePlayed |-> firstNotePlayed, sampleCount |-> sampleCount,
     samplesPerBeat |-> samplesPerBeat, tempo |-> tempo, trigs |-> trigs,
     out |-> outBuffer, panicked |-> FALSE, code |-> 0, wres |-> <<>>, path |-> "none"]

\* frames + n, exact up to MaxTotal
Sat(f, n) == IF n[1] > 0 \/ f + n[2] > MaxTotal THEN MaxTotal + 1 ELSE f + n[2]

\* tempo values the -t flag is given
Tempos == {0, 60}

\* the globals when main has parsed the flags and set the callbacks
Startup ==
    /\ beat = 0
    /\ firstNotePlayed = FALSE
    /\ sampleCount = U(0)
    /\ samplesPerBeat = U(0)
    /\ trigs = [c \in {} |-> 0]
    /\ outBuffer = <<>>
    /\ panicked = FALSE
    /\ op = "main"
    /\ arg = U(0)
    /\ ret = 0
    /\ launchpadEvents = <<>>
    /\ wres = <<>>
    /\ path = "none"
    /\ frames = 0
    /\ crossings = 0
    /\ stable = TRUE
    /\ beat0 = 0
    /\ lights = <<>>

Init == Startup /\ tempo \in Tempos

\* JACK runs the process callback for a cycle of nframes frames
ProcessCallback(nframes, events, ws) ==
    /\ ~panicked
    /\ \E m \in {Process(Globals, nframes, events, ws)} :
       LET started == ~firstNotePlayed /\ m.firstNotePlayed
       IN  /\ beat' = m.beat
           /\ firstNotePlayed' = m.firstNotePlayed
           /\ sampleCount' = m.sampleCount
           /\ samplesPerBeat' = m.samplesPerBeat
           /\ trigs' = m.trigs
           /\ outBuffer' = m.out
           /\ panicked' = m.panicked
           /\ op' = "Process"
           /\ arg' = nframes
           /\ ret' = m.code
           /\ launchpadEvents' = events
           /\ wres' = m.wres
           /\ path' = m.path
           /\ frames' = IF started THEN 0
                        ELSE IF m.path \in {"accumulate", "cross"} THEN Sat(frames, nframes)
                        ELSE frames
           /\ crossings' = IF started THEN 0
                           ELSE IF m.path = "cross" THEN crossings + 1
                           ELSE crossings
           /\ stable' = (started \/ stable)
           /\ beat0' = IF started THEN m.beat ELSE beat0
    /\ UNCHANGED <<tempo, lights>>

\* JACK runs the sample-rate callback with the new rate sr
SampleRateCallback(sr) ==
    /\ ~panicked
    /\ \E m \in {setSamplesPerBeat(Globals, sr)} :
           /\ samplesPerBeat' = m.samplesPerBeat
           /\ op' = "setSamplesPerBeat"
           /\ arg' = sr
           /\ ret' = m.code
           /\ stable' = (stable /\ (~firstNotePlayed \/ m.samplesPerBeat = samplesPerBeat))
    /\ launchpadEvents' = <<>>
    /\ wres' = <<>>
    /\ path' = "none"
    /\ UNCHANGED <<beat, firstNotePlayed, sampleCount, tempo, trigs, outBuffer,
                   panicked, frames, crossings, beat0, lights>>

\* the cycle sizes offered
Frames == {U(n) : n \in 0..MaxFrames} \cup {MaxU32}

\* the sample rates offered
Rates == {U(n) : n \in 0..MaxRate}

\* the codes the host returns for the n writes of a cycle; no write follows
\* a failed one in the same cycle, so one failure per cycle is offered
Outcomes(n) ==
    {[i \in 1..n |-> 0]}
    \cup {[i \in 1..n |-> IF i = k THEN c ELSE 0] : k \in 1..n, c \in WriteCodes \ {0}}

\* the writes a cycle with k inbound events can make: one per event, and the
\* step light until the first note is played
Writes(k) == k + (IF firstNotePlayed THEN 0 ELSE 1)

(* The clock: cycles with no inbound event, and sample-rate changes. *)

Tick ==
    /\ crossings < MaxCount
    /\ \E n \in Frames, ws \in Outcomes(Writes(0)) : ProcessCallback(n, <<>>, ws)

RateChange == \E sr \in Rates : SampleRateCallback(sr)

Next == Tick \/ RateChange

Spec == Init /\ [][Next]_vars

(* The cursor over a whole pattern: cycles of one frame at a fixed rate. *)

WrapTick ==
    /\ crossings < MaxCrossings
    /\ \E ws \in Outcomes(Writes(0)) : ProcessCallback(U(1), <<>>, ws)

WrapRate == SampleRateCallback(U(2))

WrapNext == WrapTick \/ WrapRate

SpecWrap == Init /\ [][WrapNext]_vars

(* The MIDI translation: cycles of one frame with inbound events.         *)

\* the six controller buttons the program routes and the two beside them
CCEvents == {<<176, b, 100>> : b \in 103..110} \cup {<<176, 104, 0>>, <<176, 109, 127>>}

\* pad notes, other status bytes and truncated buffers
OtherEvents ==
    {<<144, 35, 127>>, <<144, 35, 0>>, <<128, 35, 127>>, <<224, 0, 64>>, <<248>>,
     <<>>, <<176>>, <<176, 106>>}

Events == CCEvents \cup OtherEvents

\* the events of the cycles with several inbound events
SeqEvents == {<<176, 106, 100>>, <<144, 35, 127>>, <<176, 106>>}

EventSeqs ==
    {<<>>} \cup {<<e>> : e \in Events}
    \cup UNION {[1..k -> SeqEvents] : k \in 2..MaxEvents}

MidiTick ==
    /\ crossings < MaxCount
    /\ \E evs \in EventSeqs : \E ws \in Outcomes(Writes(Len(evs))) :
           ProcessCallback(U(1), evs, ws)

MidiRate == SampleRateCallback(U(4))

MidiNext == MidiTick \/ MidiRate

\* the default of the -t flag
InitMidi == Startup /\ tempo = 120

SpecMidi == InitMidi /\ [][MidiNext]_vars

(* The beat period: sample-rate changes alone, over the rates of audio    *)
(* hardware and the rates around the 32-bit limit of 60 * sr.             *)

WideTempos == {0, 2, 60, 90, 120, 240, 999}

WideRates ==
    {U(n) : n \in 0..MaxRate}
    \cup {U(8000), U(22050), U(44100), U(48000), U(88200), U(96000), U(192000)}
    \cup {U(71582788), U(71582789), U(143165577), U(2147483647), MaxU32}

InitRate == Startup /\ tempo \in WideTempos

WideRateChange == \E sr \in WideRates : SampleRateCallback(sr)

SpecRate == InitRate /\ [][WideRateChange]_vars

----------------------------------------------------------------------------
(* What the callbacks left behind, for the properties below. *)

\* a step light: a note-on of velocity 63 on the controller's port
IsLight(x) == x.port = "launchpadOutput" /\ x.data[1] = 144 /\ x.data[3] = 63

HasLight(buf) == \E i \in 1..Len(buf) : IsLight(buf[i])

\* the messages of the cycle written through the synthesizer's port
NdOut(buf) == SelectSeq(buf, LAMBDA x : x.port = "ndOutput")

\* the last step was a Process whose tick was reached
Ticked == op = "Process" /\ path # "none"

----------------------------------------------------------------------------
(* C1: partition invariance.  With samplesPerBeat > 0 unchanged since the  *)
(* first tick, whenever the frames ticked since then add up to a multiple  *)
(* k * samplesPerBeat, trigger has been called exactly k times since then. *)
C1_PartitionInvariance ==
    (firstNotePlayed /\ stable /\ samplesPerBeat # U(0) /\ frames <= MaxTotal
        /\ frames % Val(samplesPerBeat) = 0)
    => crossings = frames \div Val(samplesPerBeat)

----------------------------------------------------------------------------
\* the code the step-light write of the last tick returned
LightCode == wres[Len(wres)]

(* C2 as stated: the tick that finds firstNotePlayed false and beat 0      *)
(* always calls trigger and leaves a step light in the output, whatever    *)
(* nframes and samplesPerBeat are; and no later tick fires unconditionally.*)
C2_FirstTickAlwaysFires ==
    [][ /\ (~firstNotePlayed /\ beat = 0 /\ Ticked')
            => (path' = "first" /\ HasLight(outBuffer'))
        /\ (firstNotePlayed /\ Ticked') => path' # "first" ]_vars

(* C2 amended: that tick always attempts the step-light write; it calls    *)
(* trigger and sets firstNotePlayed unless the write returns a code that   *)
(* isFailure recognises, in which case it returns that code with           *)
(* firstNotePlayed still false; the light is in the output exactly when    *)
(* the write returned 0; and once firstNotePlayed is set no later tick     *)
(* fires unconditionally.                                                  *)
C2_FirstTickFiresUnlessWriteFails ==
    [][ /\ (~firstNotePlayed /\ beat = 0 /\ Ticked')
            => /\ wres' # <<>>
               /\ IF isFailure(LightCode')
                  THEN path' = "firstFailed" /\ ~firstNotePlayed' /\ ret' = LightCode'
                  ELSE path' = "first" /\ firstNotePlayed' /\ ret' = 0
               /\ HasLight(outBuffer') <=> (LightCode' = 0)
        /\ (firstNotePlayed /\ Ticked') => (path' # "first" /\ firstNotePlayed') ]_vars

\* a first tick of fewer frames than a beat fired and lit the step
C2_Witness ==
    /\ Ticked /\ path = "first" /\ beat = 1 /\ firstNotePlayed
    /\ HasLight(outBuffer)
    /\ Less32(Add32(sampleCount, arg), samplesPerBeat)

----------------------------------------------------------------------------
(* C3: a tick after the first, of nframes frames from carry c with         *)
(* samplesPerBeat > 0, reports k crossings and leaves carry c' such that   *)
(* c + nframes = k * samplesPerBeat + c' and c' < samplesPerBeat, that is  *)
(* k = floor((c + nframes) / samplesPerBeat) and c' the remainder.         *)
C3_AdvanceFloorAndRemainder ==
    [][ (firstNotePlayed /\ samplesPerBeat # U(0) /\ Ticked')
        => /\ AddWide(sampleCount, arg')
                = AddWide(Cut(MulWide(crossings' - crossings, samplesPerBeat)), sampleCount')
           /\ Less32(sampleCount', samplesPerBeat) ]_vars

----------------------------------------------------------------------------
(* C4: whenever samplesPerBeat > 0, sampleCount < samplesPerBeat, between  *)
(* any callbacks: ticks and sample-rate changes in any order.              *)
C4_CarryBelowPeriod == (samplesPerBeat # U(0)) => Less32(sampleCount, samplesPerBeat)

----------------------------------------------------------------------------
(* C5: from the cursor value at the first note, after exactly 64 beat      *)
(* crossings the cursor has that value again, and after 65 it is one more, *)
(* modulo 64.                                                              *)
C5_CursorWrap ==
    firstNotePlayed =>
        /\ (crossings = Steps) => (beat = beat0)
        /\ (crossings = Steps + 1) => (beat = (beat0 + 1) % Steps)

----------------------------------------------------------------------------
(* C6: the step cursor is in 0..63 in every reachable state.               *)
C6_CursorInRange == beat \in 0..(Steps - 1)

\* a first tick failed and was retried, and beats were crossed since
C6_Witness == firstNotePlayed /\ beat = 2 /\ crossings >= Steps

----------------------------------------------------------------------------
(* C7: after a sample-rate change that returned 0, samplesPerBeat is       *)
(* floor(60 * sr / tempo) of the integers, with no 32-bit wrap of 60 * sr. *)
C7_BeatPeriodExact ==
    (op = "setSamplesPerBeat" /\ ret = 0 /\ tempo > 0)
    => Wide(samplesPerBeat) = DivWide(MulWide(60, arg), tempo)

----------------------------------------------------------------------------
(* C8: with tempo 0, setSamplesPerBeat returns a non-zero code that        *)
(* isFailure recognises, without a division (no panic), and leaves         *)
(* samplesPerBeat, sampleCount, beat and firstNotePlayed as they were.     *)
C8_ZeroTempoIsFailure ==
    [][ (tempo = 0 /\ op' = "setSamplesPerBeat")
        => /\ ret' # 0 /\ isFailure(ret') /\ ~panicked'
           /\ UNCHANGED <<samplesPerBeat, sampleCount, beat, firstNotePlayed>> ]_vars

\* a sample-rate change was refused for the zero tempo after the first note
C8_Witness ==
    op = "setSamplesPerBeat" /\ tempo = 0 /\ ret = DivideByZero /\ firstNotePlayed

----------------------------------------------------------------------------
(* C9: a sample-rate change with sr = 0 returns an error and leaves        *)
(* samplesPerBeat unchanged, and no sample-rate change sets samplesPerBeat *)
(* to 0.                                                                   *)
C9_ZeroRateIsError ==
    [][ (op' = "setSamplesPerBeat")
        => /\ (arg' = U(0)) => (ret' # 0 /\ samplesPerBeat' = samplesPerBeat)
           /\ (samplesPerBeat' # samplesPerBeat) => (samplesPerBeat' # U(0)) ]_vars

----------------------------------------------------------------------------
\* a message [0xB0, b, v] of one of the six routed buttons
RoutedCC(e) == Len(e) = 3 /\ e[1] = 176 /\ e[2] \in 104..109

\* the message the specification routes it to: [0x90 | (b - 0x68), 0x36, v]
Routed(e) == [port |-> "ndOutput", data |-> <<BitOr(144, e[2] - 104), 54, e[3]>>]

AllRouted == launchpadEvents # <<>> /\ \A i \in 1..Len(launchpadEvents) : RoutedCC(launchpadEvents[i])

\* how many of the cycle's writes were accepted
Accepted == Cardinality({i \in 1..Len(wres) : i <= Len(launchpadEvents) /\ wres[i] = 0})

(* C10 as stated: a cycle whose inbound messages are all [0xB0, b, v] with *)
(* b in 0x68..0x6D leaves exactly one message [0x90 | (b - 0x68), 0x36, v] *)
(* per inbound message in the synthesizer's output, in order.              *)
C10_CCRouted ==
    (op = "Process" /\ AllRouted)
    => NdOut(outBuffer) = [i \in 1..Len(launchpadEvents) |-> Routed(launchpadEvents[i])]

(* C10 amended: the message is written when MidiEventWrite accepts it      *)
(* (returns 0): the synthesizer's output holds exactly the routed messages *)
(* of the inbound messages up to the first refused write, each with        *)
(* channel offset 0..5 and the velocity unchanged; a refused write leaves  *)
(* nothing and its code is what Process returns.                           *)
C10_CCRoutedWhenAccepted ==
    (op = "Process" /\ AllRouted)
    => /\ NdOut(outBuffer) = [i \in 1..Accepted |-> Routed(launchpadEvents[i])]
       /\ \A i \in 1..Len(NdOut(outBuffer)) :
              /\ NdOut(outBuffer)[i].data[1] - 144 \in 0..5
              /\ NdOut(outBuffer)[i].data[3] = launchpadEvents[i][3]
       /\ (Accepted < Len(launchpadEvents)) => (ret = wres[Accepted + 1] /\ ret # 0)

\* 0xB0 0x6A 0x64 was routed to 0x92 0x36 0x64
C10_Witness ==
    /\ op = "Process" /\ launchpadEvents = << <<176, 106, 100>> >>
    /\ NdOut(outBuffer) = << [port |-> "ndOutput", data |-> <<146, 54, 100>>] >>

----------------------------------------------------------------------------
(* The pad grid. *)

\* a three-byte note message, status 0x80 or 0x90
IsNote(e) == Len(e) = 3 /\ e[1] \in {128, 144}

\* the grid cell a pad note addresses: note byte = column + 16 * row
PadCell(e) == <<e[2] \div 16, e[2] % 16>>

(* C11: a cycle whose one inbound message is a note message with          *)
(* velocity > 0 toggles the cell (row, column) of the trigger grid that   *)
(* its note byte column + 16 * row addresses and leaves the other cells;  *)
(* with velocity 0 the grid is unchanged.                                 *)
C11_NoteTogglesCell ==
    [][(op' = "Process" /\ Len(launchpadEvents') = 1 /\ IsNote(launchpadEvents'[1]))
       => LET e == launchpadEvents'[1] IN
          IF e[3] > 0
          THEN /\ (Cell(trigs', PadCell(e)) # 0) = (Cell(trigs, PadCell(e)) = 0)
               /\ \A c \in ((0..7) \X (0..63)) \ {PadCell(e)} : Cell(trigs', c) = Cell(trigs, c)
          ELSE trigs' = trigs]_vars

\* a message with a status byte that processMidi has no case for
UnknownStatus(e) == Len(e) >= 1 /\ e[1] \notin {176, 128, 144}

(* C12: a cycle whose inbound messages all have a status byte other than  *)
(* 0xB0, 0x80, 0x90 ends as the same cycle with no inbound message does:  *)
(* processMidi returned 0 for each (tick is reached), nothing is written  *)
(* to the synthesizer, trigs and samplesPerBeat are unchanged, and beat,  *)
(* sampleCount, firstNotePlayed, the buffer and the return code are       *)
(* those of tick alone.                                                   *)
C12_UnknownStatusIgnored ==
    [][(/\ op' = "Process"
        /\ launchpadEvents' # <<>>
        /\ \A i \in 1..Len(launchpadEvents') : UnknownStatus(launchpadEvents'[i]))
       => \E t \in {tick([Globals EXCEPT !.out = <<>>], arg', wres' \o <<0>>)} :
            /\ ~panicked'
            /\ Ticked'
            /\ NdOut(outBuffer') = <<>>
            /\ trigs' = trigs
            /\ samplesPerBeat' = samplesPerBeat
            /\ beat' = t.beat
            /\ sampleCount' = t.sampleCount
            /\ firstNotePlayed' = t.firstNotePlayed
            /\ outBuffer' = t.out
            /\ ret' = t.code
            /\ path' = t.path]_vars

\* a pitch-bend message arrived after the first note and the cycle wrote nothing
C12_Witness ==
    /\ op = "Process" /\ launchpadEvents = << <<224, 0, 64>> >>
    /\ firstNotePlayed /\ path = "accumulate" /\ sampleCount # U(0)
    /\ ret = 0 /\ outBuffer = <<>> /\ ~panicked

\* a buffer of fewer than three bytes
Truncated(e) == Len(e) < 3

(* C13: a cycle whose inbound events all have fewer than three bytes      *)
(* (empty, or one or two bytes, a leading 0xB0 included) raises no panic, *)
(* writes nothing to the synthesizer, takes no error code from the events *)
(* and goes on to tick.                                                   *)
C13_TruncatedIgnored ==
    (/\ op = "Process"
     /\ launchpadEvents # <<>>
     /\ \A i \in 1..Len(launchpadEvents) : Truncated(launchpadEvents[i]))
    => (~panicked /\ NdOut(outBuffer) = <<>> /\ Ticked)

(* C14: every step light in the cycle's buffer is the message             *)
(* [0x90, (s / 8) + 16 * (s % 8), 63] of a step s in 0..63, and the one   *)
(* written by the first tick is that of step 0, [0x90, 0, 63].            *)
C14_StepLightEncoding ==
    \A i \in 1..Len(outBuffer) :
        (outBuffer[i].port = "launchpadOutput")
        => /\ \E s \in 0..(Steps - 1) : outBuffer[i].data = stepLightMidiData(s)
           /\ (path = "first") => (outBuffer[i].data = stepLightMidiData(0)
                                   /\ outBuffer[i].data = <<144, 0, 63>>)

\* the tracks whose cell of step s is enabled
EnabledTracks(g, s) == {t \in 0..7 : Cell(g, <<t, s>>) # 0}

(* C15: a tick after the first in which a beat crossing occurs writes one *)
(* message per enabled cell of the current step, then advances beat to    *)
(* (beat + 1) mod 64, then writes the step light of the new beat as the   *)
(* last message of the cycle.                                             *)
C15_CrossingFiresAdvancesLights ==
    [][(firstNotePlayed /\ Ticked' /\ path' = "cross")
       => /\ beat' = (beat + 1) % Steps
          /\ Len(outBuffer') = Cardinality(EnabledTracks(trigs, beat)) + 1
          /\ outBuffer'[Len(outBuffer')]
                 = [port |-> "launchpadOutput", data |-> stepLightMidiData(beat')]]_vars

(* C16: immediately after any tick that calls trigger, sampleCount has    *)
(* been reset to 0, and so is below samplesPerBeat when that is positive. *)
C16_ResetOnTrigger ==
    [][(Ticked' /\ path' \in {"first", "cross"})
       => /\ sampleCount' = U(0)
          /\ (samplesPerBeat' # U(0)) => Less32(sampleCount', samplesPerBeat')]_vars

\* sampleCount + nframes < samplesPerBeat, on the uncut sum
BelowPeriod(c, n, p) == AddWide(c, n)[1] = 0 /\ Less32(Cut(AddWide(c, n)), p)

(* C17: a tick after the first with sampleCount + nframes < samplesPerBeat *)
(* returns 0, calls no trigger, writes no light, leaves beat, trigs,       *)
(* samplesPerBeat and firstNotePlayed, and adds exactly nframes to         *)
(* sampleCount; and a tick after the first is such a no-op only then: the  *)
(* sum is taken without 32-bit wrap-around.                                *)
C17_AccumulateOnly ==
    [][(firstNotePlayed /\ Ticked')
       => /\ BelowPeriod(sampleCount, arg', samplesPerBeat)
             => /\ path' = "accumulate"
                /\ ret' = 0
                /\ crossings' = crossings
                /\ ~HasLight(outBuffer')
                /\ UNCHANGED <<beat, trigs, samplesPerBeat, firstNotePlayed>>
                /\ Wide(sampleCount') = AddWide(sampleCount, arg')
          /\ (path' = "accumulate") => BelowPeriod(sampleCount, arg', samplesPerBeat)]_vars

\* how many of the events reach cc's write: three bytes, status 0xB0
Controllers(evs) == Cardinality({i \in 1..Len(evs) : Len(evs[i]) = 3 /\ evs[i][1] = 176})

\* handling one of the cycle's events returned a non-zero code
EventRefused == \E i \in 1..Len(wres) : i <= Controllers(launchpadEvents) /\ wres[i] # 0

(* C18: every Process callback returns; if handling an event returned a   *)
(* non-zero code the callback returns that code at once, the events after *)
(* it are not handled and tick is not called, so sampleCount, beat and    *)
(* firstNotePlayed are unchanged; otherwise all events were handled       *)
(* before tick and the callback returns what tick returns.                *)
C18_EventsThenTick ==
    [][(op' = "Process")
       => /\ ~panicked'
          /\ EventRefused'
             => /\ path' = "none"
                /\ ret' # 0 /\ ret' = wres'[Len(wres')]
                /\ Len(NdOut(outBuffer')) = Len(wres') - 1
                /\ Len(wres') <= Controllers(launchpadEvents')
                /\ UNCHANGED <<sampleCount, beat, firstNotePlayed>>
          /\ ~EventRefused'
             => /\ Ticked'
                /\ Len(NdOut(outBuffer')) = Controllers(launchpadEvents')
                /\ \E t \in {tick([Globals EXCEPT !.out = <<>>], arg',
                                  SubSeq(wres', Controllers(launchpadEvents') + 1, Len(wres'))
                                  \o <<0>>)} :
                       /\ ret' = t.code
                       /\ path' = t.path
                       /\ <<sampleCount', beat', firstNotePlayed'>>
                              = <<t.sampleCount, t.beat, t.firstNotePlayed>>]_vars

(* C19: a first tick whose step-light write fails returns the failure     *)
(* code without calling trigger and leaves beat 0, firstNotePlayed false  *)
(* and sampleCount as it was, so the next tick attempts the light again;  *)
(* and firstNotePlayed never becomes true in a cycle that did not write   *)
(* the step light.                                                        *)
C19_FailedFirstTickPreserves ==
    [][(~firstNotePlayed /\ Ticked')
       => /\ path' = "firstFailed"
             => /\ ret' = LightCode' /\ isFailure(ret')
                /\ beat' = 0 /\ beat' = beat
                /\ ~firstNotePlayed'
                /\ sampleCount' = sampleCount
          /\ firstNotePlayed' => HasLight(outBuffer')]_vars

----------------------------------------------------------------------------
(* The step-light encoding: calls of stepLightMidiData for the steps of   *)
(* the pattern, the last two kept for comparison.                         *)

StepLightCall(s) ==
    /\ ~panicked
    /\ lights' = <<[beat |-> s, data |-> stepLightMidiData(s)]>>
                 \o (IF lights = <<>> THEN <<>> ELSE <<lights[1]>>)
    /\ op' = "stepLightMidiData"
    /\ arg' = U(s)
    /\ UNCHANGED <<beat, firstNotePlayed, sampleCount, samplesPerBeat, tempo, trigs,
                   outBuffer, panicked, ret, launchpadEvents, wres, path,
                   frames, crossings, stable, beat0>>

LightNext == \E s \in 0..(Steps - 1) : StepLightCall(s)

SpecLight == Init /\ [][LightNext]_vars

(* C20: two calls of stepLightMidiData for steps in 0..63 return the same *)
(* note byte only for the same step, and every note byte returned is      *)
(* below 128.                                                             *)
C20_EncodingInjective ==
    \A i, j \in 1..Len(lights) :
        /\ (lights[i].data[2] = lights[j].data[2]) => (lights[i].beat = lights[j].beat)
        /\ lights[i].data[2] \in 0..127

\* steps 63 and 7, the largest note bytes of the last and the first column
C20_Witness ==
    /\ op = "stepLightMidiData" /\ Len(lights) = 2
    /\ lights[1] = [beat |-> 63, data |-> <<144, 119, 63>>]
    /\ lights[2] = [beat |-> 7, data |-> <<144, 112, 63>>]

====
